---------------------------- MODULE Spec2Model ----------------------------
(***************************************************************************)
(* WalletHunter backend: one SQLite file (table users) shared by two       *)
(* long-lived processes, the request server (src/api_server.py) and the    *)
(* Telegram bot (src/bot.py).  Each process owns one module-level          *)
(* connection that all of its handler threads share.                       *)
(*                                                                         *)
(* The store is modelled at the granularity of one SQL statement: a        *)
(* statement is atomic, a handler is a sequence of statements.  A          *)
(* connection's first INSERT/UPDATE opens its transaction implicitly and   *)
(* takes the file's write lock; conn.commit() publishes the connection's   *)
(* image and releases the lock.  A statement that needs the lock while     *)
(* the other process holds it waits (its action is disabled).              *)
(***************************************************************************)
EXTENDS Integers, Sequences, FiniteSets, TLC

VARIABLES
    cols,      \* live column set of table users ({} = the table does not exist)
    disk,      \* committed rows: a set of functions column -> value
    writer,    \* the process whose connection holds an open write transaction
    pending,   \* that connection's uncommitted image of the rows
    clock,     \* int(time.time())
    boot,      \* per process: where its start-up schema code stands
    pc,        \* per handler thread: the next statement of its handler
    loc,       \* per handler thread: the handler's arguments and locals
    res,       \* per handler thread: the outcome of its last finished call
    calls,     \* handler invocations so far
    ADMIN_API_KEY   \* ADMIN_API_KEY of the request server's environment

vars == <<cols, disk, writer, pending, clock, boot, pc, loc, res, calls, ADMIN_API_KEY>>

-----------------------------------------------------------------------------
(* Bounds *)

MaxClock == 2      \* the clock runs 1..MaxClock
MaxCalls == 2      \* handler invocations in a concurrent run of every handler
MaxTouchCalls == 3 \* handler invocations in a concurrent run of touches
MaxSeqCalls == 3   \* handler invocations in a sequential run
MaxRuns == 2       \* start-ups (schema reconciliations) per process
MaxFields == 1     \* fields sent with a value in one request body
MaxEventCalls == 3 \* handler invocations in a concurrent run of touches and events
MaxGetCalls == 3   \* handler invocations in a concurrent run of touches and reads
MaxListCalls == 4  \* handler invocations in a sequential run of touches and listings
MaxLifeCalls == 2  \* handler invocations in the life of a deployment
MaxVetFields == 2  \* fields sent with a value in one body of a sequential admin run
MaxCmdCalls == 2   \* handler invocations in a concurrent run of bot commands

-----------------------------------------------------------------------------
(* Processes and their handler threads *)

Procs == {"api", "bot"}
Threads == {"a1", "a2", "b1"}
ProcOf(t) == IF t = "b1" THEN "bot" ELSE "api"
NoProc == "none"

-----------------------------------------------------------------------------
(* Column Registry: the two CREATE TABLE statements and the two lists of   *)
(* ALTER TABLE ... ADD COLUMN statements.                                  *)

BaseColumns ==
    {"user_id", "username", "first_name", "last_name", "language",
     "created_at", "last_seen"}

AllColumns ==
    BaseColumns \cup
    {"minutes_in_app", "wallet_status", "wallet_address", "win_chance",
     "gen_level", "t_wallet_seconds", "t_seed_seconds",
     "bal_mmc", "bal_ton", "bal_usdt", "bal_stars"}

\* A REAL as Python and SQLite hold it: a number, Python's NaN, SQL's NULL.
F(n) == [v |-> n]
NaN == [nan |-> TRUE]
Null == [null |-> TRUE]
IsNum(x) == x \notin {NaN, Null}

\* DEFAULT clause of every non-key column.
ColumnDefault(c) ==
    CASE c = "minutes_in_app"   -> 0
      [] c = "wallet_status"    -> "idle"
      [] c = "wallet_address"   -> ""
      [] c = "win_chance"       -> F(1)
      [] c = "gen_level"        -> 0
      [] c = "t_wallet_seconds" -> 0
      [] c = "t_seed_seconds"   -> 900
      [] OTHER                  -> F(0)   \* bal_mmc, bal_ton, bal_usdt, bal_stars

\* Columns of CREATE TABLE IF NOT EXISTS users, per process.
ApiCreateColumns == AllColumns
BotCreateColumns ==
    BaseColumns \cup
    {"win_chance", "gen_level", "bal_mmc", "bal_ton", "bal_usdt", "bal_stars"}
CreateColumns(p) == IF p = "api" THEN ApiCreateColumns ELSE BotCreateColumns

\* Columns ensure_user_columns adds when missing, in the order of its ifs.
BotEnsureColumns ==
    <<"minutes_in_app", "wallet_status", "wallet_address",
      "t_wallet_seconds", "t_seed_seconds">>
ApiEnsureColumns ==
    BotEnsureColumns \o <<"bal_mmc", "bal_ton", "bal_usdt", "bal_stars">>
EnsureColumns(p) == IF p = "api" THEN ApiEnsureColumns ELSE BotEnsureColumns

-----------------------------------------------------------------------------
(* The store *)

\* Rows as connection p sees them: its own uncommitted image, else the file.
View(p) == IF writer = p THEN pending ELSE disk

\* A write statement of p can run: nobody else holds the write lock.
CanWrite(p) == writer \in {NoProc, p}

\* A write statement of p leaves its connection in a transaction with image rs.
WriteTo(p, rs) == /\ writer' = p
                  /\ pending' = rs
                  /\ UNCHANGED disk

\* conn.commit() on p's connection.
CommitBy(p) ==
    IF writer = p
    THEN /\ disk' = pending
         /\ writer' = NoProc
         /\ pending' = {}
    ELSE UNCHANGED <<disk, writer, pending>>

\* ALTER TABLE users ADD COLUMN c DEFAULT d, applied to a set of rows.
WithColumnRewritten(rs, c) ==
    { [k \in DOMAIN r \cup {c} |->
          IF k = c THEN ColumnDefault(c) ELSE IF k = "created_at" THEN 0 ELSE r[k]] :
      r \in rs }
WithColumn(rs, c) ==
    { [k \in DOMAIN r \cup {c} |-> IF k = c THEN ColumnDefault(c) ELSE r[k]] : r \in rs }


-----------------------------------------------------------------------------
(* Start-up of a process: db_init() and ensure_user_columns(), run at      *)
(* import before any handler is served.  boot[p] holds                     *)
(*   st       "start" | "created" | "ensure" | "up" | "crashed"            *)
(*   existing the column names PRAGMA table_info returned                  *)
(*   i        the next entry of the ensure list to look at                 *)
(*   run      start-ups begun, done: start-ups that reached the end        *)
(*   added    columns the start-ups of this process have added             *)

\* The pre-check of ensure_user_columns: `if "<c>" not in existing`.
MissingNoPrecheck(existing, c) == TRUE
Missing(existing, c) == c \notin existing

\* Index of the first ensure-list entry from i on that passes the pre-check.
RECURSIVE NextMissing(_, _, _)
NextMissing(p, existing, i) ==
    IF i > Len(EnsureColumns(p)) THEN i
    ELSE IF Missing(existing, EnsureColumns(p)[i]) THEN i
    ELSE NextMissing(p, existing, i + 1)

\* CREATE TABLE IF NOT EXISTS users (...); conn.commit()
db_init(p) ==
    /\ boot[p].st = "start"
    /\ writer = NoProc
    /\ cols' = IF cols = {} THEN CreateColumns(p) ELSE cols
    /\ boot' = [boot EXCEPT ![p].st = "created"]
    /\ UNCHANGED <<disk, writer, pending, clock, pc, loc, res, calls, ADMIN_API_KEY>>

\* PRAGMA table_info(users); existing = {row[1] for row in cur.fetchall()}
ensure_user_columns_read(p) ==
    /\ boot[p].st = "created"
    /\ boot' = [boot EXCEPT ![p].st = "ensure", ![p].existing = cols, ![p].i = 1]
    /\ UNCHANGED <<cols, disk, writer, pending, clock, pc, loc, res, calls, ADMIN_API_KEY>>

\* The next ALTER TABLE users ADD COLUMN of the list.  SQLite refuses a
\* column that exists ("duplicate column name"); nothing catches the error,
\* so the import, and with it the process, fails.
ensure_user_columns_add(p) ==
    LET j == NextMissing(p, boot[p].existing, boot[p].i)
        c == EnsureColumns(p)[j]
    IN  /\ boot[p].st = "ensure"
        /\ j <= Len(EnsureColumns(p))
        /\ writer = NoProc
        /\ IF c \in cols \/ cols = {}
           THEN /\ boot' = [boot EXCEPT ![p].st = "crashed"]
                /\ UNCHANGED <<cols, disk>>
           ELSE /\ cols' = cols \cup {c}
                /\ disk' = WithColumn(disk, c)
                /\ boot' = [boot EXCEPT ![p].i = j + 1,
                                        ![p].added = @ \cup {c}]
        /\ UNCHANGED <<writer, pending, clock, pc, loc, res, calls, ADMIN_API_KEY>>

\* No entry is left: conn.commit(), and the process starts serving.
ensure_user_columns_commit(p) ==
    /\ boot[p].st = "ensure"
    /\ NextMissing(p, boot[p].existing, boot[p].i) > Len(EnsureColumns(p))
    /\ boot' = [boot EXCEPT ![p].st = "up", ![p].done = @ + 1]
    /\ UNCHANGED <<cols, disk, writer, pending, clock, pc, loc, res, calls, ADMIN_API_KEY>>

\* The process is started again (a redeploy, or its supervisor after a crash).
Restart(p) ==
    /\ boot[p].st \in {"up", "crashed"}
    /\ boot[p].run < MaxRuns
    /\ boot' = [boot EXCEPT ![p] = [st |-> "start", existing |-> {}, i |-> 1,
                                    run |-> @.run + 1, done |-> @.done,
                                    added |-> @.added]]
    /\ UNCHANGED <<cols, disk, writer, pending, clock, pc, loc, res, calls, ADMIN_API_KEY>>

\* Tables older deployments may have left: none, or the identity and
\* timestamp columns with any of the later column groups (the groups in
\* which the CREATE TABLE and ALTER TABLE blocks of the two files differ).
ColumnGroups ==
    {{"win_chance", "gen_level"},
     {"bal_mmc", "bal_ton", "bal_usdt", "bal_stars"},
     {"minutes_in_app", "wallet_status", "wallet_address"},
     {"t_wallet_seconds", "t_seed_seconds"}}
LegacyLayouts ==
    {{}} \cup {BaseColumns \cup UNION G : G \in SUBSET ColumnGroups}

\* A row written before this start-up, in a table of the given layout.
LegacyRow(layout) ==
    [c \in layout |->
        CASE c = "user_id" -> 1
          [] c \in {"created_at", "last_seen"} -> 1
          [] c \in {"username", "first_name", "last_name", "language"} -> "old"
          [] OTHER -> ColumnDefault(c)]

Idle == [op |-> "idle"]
NoRes == [status |-> "none"]

InitSchema ==
    /\ cols \in LegacyLayouts
    /\ disk \in (IF cols = {} THEN {{}} ELSE {{}, {LegacyRow(cols)}})
    /\ writer = NoProc
    /\ pending = {}
    /\ clock = 1
    /\ boot = [p \in Procs |-> [st |-> "start", existing |-> {}, i |-> 1,
                                run |-> 1, done |-> 0, added |-> {}]]
    /\ pc = [t \in Threads |-> "idle"]
    /\ loc = [t \in Threads |-> Idle]
    /\ res = [t \in Threads |-> NoRes]
    /\ calls = 0
    /\ ADMIN_API_KEY = "secret"

NextSchema ==
    \E p \in Procs :
        \/ db_init(p)
        \/ ensure_user_columns_read(p)
        \/ ensure_user_columns_add(p)
        \/ ensure_user_columns_commit(p)
        \/ Restart(p)

SpecSchema == InitSchema /\ [][NextSchema]_vars


-----------------------------------------------------------------------------
(* Rows and statements *)

Users == {1, 2}

\* SELECT ... FROM users WHERE user_id = u
Select(rs, u) == {r \in rs : r["user_id"] = u}
FetchOne(rs) == CHOOSE r \in rs : TRUE

\* UPDATE users SET <sets> WHERE user_id = u
Update(rs, u, sets) ==
    { IF r["user_id"] = u
      THEN [c \in DOMAIN r |-> IF c \in DOMAIN sets THEN sets[c] ELSE r[c]]
      ELSE r : r \in rs }

\* `d.k or ""` for an optional text field: a key the caller left out (or sent
\* as null) is no key of d.
OrEmpty(d, k) == IF k \in DOMAIN d THEN d[k] ELSE ""

\* The row INSERT INTO users (user_id, username, first_name, last_name,
\* language, created_at, last_seen) makes; the other columns take defaults.
NewRow(u, prof, now) ==
    [c \in cols |->
        CASE c = "user_id"    -> u
          [] c = "username"   -> OrEmpty(prof, "username")
          [] c = "first_name" -> OrEmpty(prof, "first_name")
          [] c = "last_name"  -> OrEmpty(prof, "last_name")
          [] c = "language"   -> OrEmpty(prof, "language")
          [] c = "created_at" -> now
          [] c = "last_seen"  -> now
          [] OTHER            -> ColumnDefault(c)]

\* The SET list of upsert_user's UPDATE.
TouchSetsResetCreated(prof, now) ==
    [c \in {"username", "first_name", "last_name", "language", "created_at",
            "last_seen"} |->
        IF c \in {"created_at", "last_seen"} THEN now ELSE OrEmpty(prof, c)]
TouchSets(prof, now) ==
    [c \in {"username", "first_name", "last_name", "language", "last_seen"} |->
        IF c = "last_seen" THEN now ELSE OrEmpty(prof, c)]

\* get_user_row: SELECT * FROM users WHERE user_id=?; r = cur.fetchone();
\* HTTPException(404) when there is no row, else the row.
get_user_row_lenient(rs, u) ==
    IF Select(rs, u) = {}
    THEN [status |-> "ok", r |-> [user_id |-> u, minutes_in_app |-> 0]]
    ELSE [status |-> "ok", r |-> FetchOne(Select(rs, u))]
get_user_row_never(rs, u) == [status |-> "404"]
get_user_row(rs, u) ==
    IF Select(rs, u) = {}
    THEN [status |-> "404"]
    ELSE [status |-> "ok", r |-> FetchOne(Select(rs, u))]

\* Profile snapshots a caller may send; the second leaves two fields out.
Profiles ==
    { [username |-> "ann", first_name |-> "Ann", last_name |-> "Lee", language |-> "en"],
      [first_name |-> "Anna", language |-> "ru"] }

-----------------------------------------------------------------------------
(* Handler threads *)

Finish(t, result) ==
    /\ pc' = [pc EXCEPT ![t] = "idle"]
    /\ loc' = [loc EXCEPT ![t] = Idle]
    /\ res' = [res EXCEPT ![t] = result]

Goto(t, label) ==
    /\ pc' = [pc EXCEPT ![t] = label]
    /\ UNCHANGED res

Begin(t, label, locals) ==
    /\ pc[t] = "idle"
    /\ boot[ProcOf(t)].st = "up"
    /\ pc' = [pc EXCEPT ![t] = label]
    /\ loc' = [loc EXCEPT ![t] = locals]
    /\ res' = [res EXCEPT ![t] = NoRes]
    /\ calls' = calls + 1
    /\ UNCHANGED <<cols, disk, writer, pending, clock, boot, ADMIN_API_KEY>>

Status(s) == [status |-> s]

\* POST /ping: ping(body) calls upsert_user(body).
StartPing(t, u, prof) ==
    /\ ProcOf(t) = "api"
    /\ Begin(t, "up_select",
             [op |-> "ping", uid |-> u, prof |-> prof, now |-> 0, exists |-> FALSE])

\* A bot message that only touches its sender (/start, /myid, the menus).
StartTouch(t, u, prof) ==
    /\ ProcOf(t) = "bot"
    /\ Begin(t, "up_select",
             [op |-> "touch", uid |-> u, prof |-> prof, now |-> 0, exists |-> FALSE])

\* upsert_user: now = int(time.time()); SELECT user_id ...; exists = ...
upsert_user_select(t) ==
    /\ pc[t] = "up_select"
    /\ loc' = [loc EXCEPT ![t].now = clock,
                          ![t].exists = Select(View(ProcOf(t)), loc[t].uid) # {}]
    /\ Goto(t, "up_write")
    /\ UNCHANGED <<cols, disk, writer, pending, clock, boot, calls, ADMIN_API_KEY>>

\* PRIMARY KEY: an INSERT of a user_id the connection sees fails.
KeyFree(rs, u) == Select(rs, u) = {}

\* upsert_user: the INSERT (not exists) or the UPDATE (exists).  A failed
\* INSERT raises IntegrityError out of the handler; the transaction the
\* statement opened stays open, since the commit below is skipped.
upsert_user_write(t) ==
    LET p == ProcOf(t)
        l == loc[t]
    IN  /\ pc[t] = "up_write"
        /\ CanWrite(p)
        /\ IF l.exists
           THEN /\ WriteTo(p, Update(View(p), l.uid, TouchSets(l.prof, l.now)))
                /\ Goto(t, "up_commit")
                /\ UNCHANGED loc
           ELSE IF KeyFree(View(p), l.uid)
           THEN /\ WriteTo(p, View(p) \cup {NewRow(l.uid, l.prof, l.now)})
                /\ Goto(t, "up_commit")
                /\ UNCHANGED loc
           ELSE /\ WriteTo(p, View(p))
                /\ Finish(t, Status("IntegrityError"))
        /\ UNCHANGED <<cols, clock, boot, calls, ADMIN_API_KEY>>

\* The statement of a bot admin command that follows its upsert_user.
CmdEntry(op) ==
    CASE op = "user" -> "cmd_user" [] op = "users" -> "cmd_users" [] OTHER -> "cmd"

\* upsert_user: conn.commit(); a bot admin command goes on to its guard.
upsert_user_commit(t) ==
    /\ pc[t] = "up_commit"
    /\ CommitBy(ProcOf(t))
    /\ IF loc[t].op \in {"ping", "touch"}
       THEN Finish(t, Status("ok"))
       ELSE Goto(t, CmdEntry(loc[t].op)) /\ UNCHANGED loc
    /\ UNCHANGED <<cols, clock, boot, calls, ADMIN_API_KEY>>

\* time passes
Tick ==
    /\ clock < MaxClock
    /\ clock' = clock + 1
    /\ UNCHANGED <<cols, disk, writer, pending, boot, pc, loc, res, calls, ADMIN_API_KEY>>


-----------------------------------------------------------------------------
(* POST /event *)

\* An EventBody as parsed: a field the caller left out or sent as null is
\* no key of the body (None and the defaults 0 and "" take the same branches).
EventFields == {"minutes_delta", "wallet_address", "wallet_status"}
EventBodies ==
    { [k \in S |-> full[k]] :
        full \in [minutes_delta : {0, -2, 3, 5},
                  wallet_address : {"", "EQ1"},
                  wallet_status : {"", "done"}],
        S \in { T \in SUBSET EventFields : Cardinality(T) <= MaxFields } }

StartEvent(t, u, body) ==
    /\ ProcOf(t) = "api"
    /\ Begin(t, "ev_get", [op |-> "event", uid |-> u, body |-> body, r |-> <<>>])

\* `if body.minutes_delta and body.minutes_delta > 0`
HasMinutes(body) ==
    /\ "minutes_delta" \in DOMAIN body
    /\ body["minutes_delta"] # 0
    /\ body["minutes_delta"] > 0

\* `if body.<k> is not None and body.<k> != ""`
HasText(body, k) == k \in DOMAIN body /\ body[k] # ""

\* The statement of event() that follows statement number n
\* (1 last_seen, 2 minutes_in_app, 3 wallet_address, 4 wallet_status).
EvAfter(body, n) ==
    IF n < 2 /\ HasMinutes(body) THEN "ev_minutes"
    ELSE IF n < 3 /\ HasText(body, "wallet_address") THEN "ev_address"
    ELSE IF n < 4 /\ HasText(body, "wallet_status") THEN "ev_status"
    ELSE "ev_commit"

\* r = get_user_row(body.user_id): SELECT * ..., 404 when there is no row.
event_get_user_row(t) ==
    LET got == get_user_row(View(ProcOf(t)), loc[t].uid)
    IN  /\ pc[t] = "ev_get"
        /\ IF got.status = "404"
           THEN Finish(t, Status("404"))
           ELSE /\ loc' = [loc EXCEPT ![t].r = got.r]
                /\ Goto(t, "ev_seen")
        /\ UNCHANGED <<cols, disk, writer, pending, clock, boot, calls, ADMIN_API_KEY>>

\* now = int(time.time()); UPDATE users SET last_seen=? WHERE user_id=?
event_last_seen(t) ==
    LET p == ProcOf(t)
    IN  /\ pc[t] = "ev_seen"
        /\ CanWrite(p)
        /\ WriteTo(p, Update(View(p), loc[t].uid, [last_seen |-> clock]))
        /\ Goto(t, EvAfter(loc[t].body, 1))
        /\ UNCHANGED <<cols, clock, boot, loc, calls, ADMIN_API_KEY>>

\* new_minutes = int(r["minutes_in_app"] or 0) + int(body.minutes_delta)
new_minutes_overwrite(r, delta) == delta
new_minutes(r, delta) == r["minutes_in_app"] + delta

\* UPDATE users SET minutes_in_app=? WHERE user_id=?
event_minutes(t) ==
    LET p == ProcOf(t)
        l == loc[t]
    IN  /\ pc[t] = "ev_minutes"
        /\ CanWrite(p)
        /\ WriteTo(p, Update(View(p), l.uid,
                 [minutes_in_app |-> new_minutes(l.r, l.body["minutes_delta"])]))
        /\ Goto(t, EvAfter(l.body, 2))
        /\ UNCHANGED <<cols, clock, boot, loc, calls, ADMIN_API_KEY>>

\* UPDATE users SET wallet_address=? WHERE user_id=?
event_wallet_address(t) ==
    LET p == ProcOf(t)
        l == loc[t]
    IN  /\ pc[t] = "ev_address"
        /\ CanWrite(p)
        /\ WriteTo(p, Update(View(p), l.uid,
                 [wallet_address |-> l.body["wallet_address"]]))
        /\ Goto(t, EvAfter(l.body, 3))
        /\ UNCHANGED <<cols, clock, boot, loc, calls, ADMIN_API_KEY>>

\* UPDATE users SET wallet_status=? WHERE user_id=?
event_wallet_status(t) ==
    LET p == ProcOf(t)
        l == loc[t]
    IN  /\ pc[t] = "ev_status"
        /\ CanWrite(p)
        /\ WriteTo(p, Update(View(p), l.uid,
                 [wallet_status |-> l.body["wallet_status"]]))
        /\ Goto(t, EvAfter(l.body, 4))
        /\ UNCHANGED <<cols, clock, boot, loc, calls, ADMIN_API_KEY>>

\* conn.commit(); return {"ok": True}
event_commit(t) ==
    /\ pc[t] = "ev_commit"
    /\ CommitBy(ProcOf(t))
    /\ Finish(t, Status("ok"))
    /\ UNCHANGED <<cols, clock, boot, calls, ADMIN_API_KEY>>


-----------------------------------------------------------------------------
(* Text and number conversions of Python, over the texts the model sends *)

\* int(s): the texts int() accepts, with their values.
IntText ==
    ("-5" :> -5) @@ ("-3" :> -3) @@ ("-1" :> -1) @@ ("0" :> 0) @@ ("1" :> 1) @@
    ("2" :> 2) @@ ("7" :> 7) @@ ("9" :> 9) @@ ("50" :> 50) @@ ("60" :> 60) @@
    ("150" :> 150) @@ ("10000" :> 10000) @@ ("40000000" :> 40000000)
IsIntText(s) == s \in DOMAIN IntText
PyInt(s) == IntText[s]

\* float(s): what int() accepts, a decimal point, and "nan".
IsFloatText(s) == IsIntText(s) \/ s \in {"12.0", "nan"}
PyFloat(s) ==
    IF IsIntText(s) THEN F(IntText[s])
    ELSE IF s = "12.0" THEN F(12)
    ELSE NaN

\* x < y on floats: false as soon as either is NaN.
Lt(x, y) == IsNum(x) /\ IsNum(y) /\ x.v < y.v
\* min(a, b) and max(a, b) of Python: a unless b is smaller (larger).
PyMin(a, b) == IF Lt(b, a) THEN b ELSE a
PyMax(a, b) == IF Lt(a, b) THEN b ELSE a
IntMin(a, b) == IF b < a THEN b ELSE a
IntMax(a, b) == IF a < b THEN b ELSE a

\* s.strip(), s.replace(",", "."), s.lower()
Strip(s) == CASE s = " secret " -> "secret" [] s = " " -> "" [] OTHER -> s
CommaToDot(s) == IF s = "12,0" THEN "12.0" ELSE s
Lower(s) == IF s = "USDT" THEN "usdt" ELSE s

\* sqlite3 binds a float parameter with sqlite3_bind_double: NaN becomes NULL.
RealColumns == {"win_chance", "bal_mmc", "bal_ton", "bal_usdt", "bal_stars"}
BindReal(x) == IF x = NaN THEN Null ELSE x
Bind(sets) ==
    [c \in DOMAIN sets |-> IF c \in RealColumns THEN BindReal(sets[c]) ELSE sets[c]]

-----------------------------------------------------------------------------
(* POST /admin/user/update *)

IntFields == {"gen_level", "t_wallet_seconds", "t_seed_seconds", "minutes_in_app"}
MoneyFields == {"bal_mmc", "bal_ton", "bal_usdt", "bal_stars"}
TextFields == {"wallet_address", "wallet_status"}
\* allowed_fields
allowed_fields == {"win_chance"} \cup IntFields \cup MoneyFields \cup TextFields

\* AdminUpdateBody.clamp_win
clamp_win(v) ==
    IF Lt(v, F(0)) THEN F(0)
    ELSE IF Lt(F(100), v) THEN F(100)
    ELSE v

\* AdminUpdateBody.non_negative_ints: max(0, int(v))
non_negative_ints(s) == IntMax(0, PyInt(s))

\* AdminUpdateBody.parse_money
parse_money(s) == PyFloat(Strip(CommaToDot(s)))

\* Whether pydantic accepts the value sent for field k, and what the
\* validated model holds for it.
ValidFieldAny(k, s) == TRUE
ValidField(k, s) ==
    CASE k = "win_chance"  -> IsFloatText(s)
      [] k \in IntFields   -> IsIntText(s)
      [] k \in MoneyFields -> IsFloatText(Strip(CommaToDot(s)))
      [] OTHER             -> TRUE
VetField(k, s) ==
    CASE k = "win_chance"  -> clamp_win(PyFloat(s))
      [] k \in IntFields   -> non_negative_ints(s)
      [] k \in MoneyFields -> parse_money(s)
      [] OTHER             -> s

\* The values a request may carry per field.
FieldTexts(k) ==
    CASE k = "win_chance"       -> {"150", "-5", "50", "nan", "abc"}
      [] k = "gen_level"        -> {"-3", "7", "10000"}
      [] k = "t_wallet_seconds" -> {"-1", "60", "40000000"}
      [] k = "t_seed_seconds"   -> {"0", "40000000"}
      [] k = "minutes_in_app"   -> {"0", "9"}
      [] k = "bal_mmc"          -> {"50", "12,0", "abc"}
      [] k \in MoneyFields      -> {"50"}
      [] k = "wallet_address"   -> {"", "EQ1"}
      [] OTHER                  -> {"", " ", "done"}

\* Request bodies: at most n of the given fields sent with a non-null value.
BodiesOver(fields, n) ==
    UNION { { b \in [S -> UNION {FieldTexts(k) : k \in S}] :
                \A k \in S : b[k] \in FieldTexts(k) } :
            S \in { T \in SUBSET fields : Cardinality(T) <= n } }
AdminBodies == BodiesOver(allowed_fields, MaxFields)

\* X-API-Key header: absent, or a text.
ApiKeys == {<<>>, <<" secret ">>, <<"wrong">>}

\* require_admin: 500 without a configured key, 403 on a mismatch.
require_admin_unset_open(key) ==
    IF ADMIN_API_KEY = "" THEN "ok"
    ELSE IF Strip(IF key = <<>> THEN "" ELSE key[1]) # ADMIN_API_KEY THEN "403"
    ELSE "ok"
require_admin(key) ==
    IF ADMIN_API_KEY = "" THEN "500"
    ELSE IF Strip(IF key = <<>> THEN "" ELSE key[1]) # ADMIN_API_KEY THEN "403"
    ELSE "ok"

\* A call that ends before its first statement.
Reject(t, result) ==
    /\ pc[t] = "idle"
    /\ boot[ProcOf(t)].st = "up"
    /\ res' = [res EXCEPT ![t] = result]
    /\ calls' = calls + 1
    /\ UNCHANGED <<cols, disk, writer, pending, clock, boot, pc, loc, ADMIN_API_KEY>>

\* The request arrives: the body is validated (422), then require_admin.
StartAdmin(t, u, key, raw) ==
    /\ ProcOf(t) = "api"
    /\ IF \E k \in DOMAIN raw : ~ValidField(k, raw[k])
       THEN Reject(t, [status |-> "422", uid |-> u, raw |-> raw])
       ELSE IF require_admin(key) # "ok"
       THEN Reject(t, Status(require_admin(key)))
       ELSE Begin(t, "adm_get",
                  [op |-> "admin", uid |-> u, raw |-> raw,
                   fields |-> [k \in DOMAIN raw |-> VetField(k, raw[k])]])

\* `if not fields`
NoFieldsNever(fields) == FALSE
NoFields(fields) == DOMAIN fields = {}

\* _ = get_user_row(body.user_id); fields = the non-null allowed fields;
\* `if not fields: return {"ok": True, "updated": False, ...}`
admin_user_update_get(t) ==
    /\ pc[t] = "adm_get"
    /\ IF get_user_row(View(ProcOf(t)), loc[t].uid).status = "404"
       THEN Finish(t, Status("404"))
       ELSE IF NoFields(loc[t].fields)
       THEN Finish(t, [status |-> "ok", updated |-> FALSE, fields |-> {}])
       ELSE Goto(t, "adm_update") /\ UNCHANGED loc
    /\ UNCHANGED <<cols, disk, writer, pending, clock, boot, calls, ADMIN_API_KEY>>

\* UPDATE users SET <k=? for k in fields> WHERE user_id=?
admin_user_update_write(t) ==
    LET p == ProcOf(t)
    IN  /\ pc[t] = "adm_update"
        /\ CanWrite(p)
        /\ WriteTo(p, Update(View(p), loc[t].uid, Bind(loc[t].fields)))
        /\ Goto(t, "adm_commit")
        /\ UNCHANGED <<cols, clock, boot, loc, calls, ADMIN_API_KEY>>

\* conn.commit()
admin_user_update_commit(t) ==
    /\ pc[t] = "adm_commit"
    /\ CommitBy(ProcOf(t))
    /\ Goto(t, "adm_read")
    /\ UNCHANGED <<cols, clock, boot, loc, calls, ADMIN_API_KEY>>

\* r2 = get_user_row(body.user_id); return {..., "fields": ..., "user": dict(r2)}
admin_user_update_read(t) ==
    LET got == get_user_row(View(ProcOf(t)), loc[t].uid)
    IN  /\ pc[t] = "adm_read"
        /\ IF got.status = "404"
           THEN Finish(t, Status("404"))
           ELSE Finish(t, [status |-> "ok", updated |-> TRUE,
                           fields |-> DOMAIN loc[t].fields, user |-> got.r])
        /\ UNCHANGED <<cols, disk, writer, pending, clock, boot, calls, ADMIN_API_KEY>>


-----------------------------------------------------------------------------
(* Bot admin commands /setwin, /setgen, /setbal.  Each handler starts with *)
(* upsert_user(message.from_user), then admin_guard, then its own code.    *)

\* ADMIN_IDS
ADMIN_IDS == {1}

\* is_admin
is_admin_anyone(u) == TRUE
is_admin(u) == u \in ADMIN_IDS

\* (message.text or "").split() without the command word
CmdArgs(cmd) ==
    CASE cmd = "setwin" ->
            {<<>>, <<"x", "50">>, <<"1", "abc">>} \cup
            { <<u, v>> : u \in {"1", "2"}, v \in {"150", "-5", "50", "nan"} }
      [] cmd = "setgen" ->
            {<<"1">>, <<"1", "abc">>} \cup
            { <<u, v>> : u \in {"1", "2"}, v \in {"-3", "7", "10000"} }
      [] OTHER ->
            {<<"1", "ton">>, <<"1", "ton", "abc">>, <<"1", "gold", "50">>} \cup
            { <<u, a, "50">> : u \in {"1", "2"}, a \in {"mmc", "USDT"} }

\* cmd_setwin: percent = max(0.0, min(100.0, float(parts[2])))
cmd_setwin_percent(s) == PyMax(F(0), PyMin(F(100), PyFloat(s)))

\* cmd_setgen: level = max(0, min(999, int(parts[2])))
cmd_setgen_level(s) == IntMax(0, IntMin(999, PyInt(s)))

\* cmd_setbal: the column of an asset name, "" when there is none
AssetColumn(a) ==
    CASE a = "mmc" -> "bal_mmc" [] a = "ton" -> "bal_ton"
      [] a = "usdt" -> "bal_usdt" [] a = "stars" -> "bal_stars" [] OTHER -> ""

\* What the command does after the guard: the reply of an early return, or
\* the UPDATE it issues (uid and SET list).
CmdPlan(cmd, a) ==
    CASE cmd = "setwin" ->
            IF Len(a) < 2 THEN [reply |-> "usage"]
            ELSE IF ~(IsIntText(a[1]) /\ IsFloatText(a[2])) THEN [reply |-> "format"]
            ELSE [uid |-> PyInt(a[1]), sets |-> [win_chance |-> cmd_setwin_percent(a[2])]]
      [] cmd = "setgen" ->
            IF Len(a) < 2 THEN [reply |-> "usage"]
            ELSE IF ~(IsIntText(a[1]) /\ IsIntText(a[2])) THEN [reply |-> "format"]
            ELSE [uid |-> PyInt(a[1]), sets |-> [gen_level |-> cmd_setgen_level(a[2])]]
      [] OTHER ->
            IF Len(a) < 3 THEN [reply |-> "usage"]
            ELSE IF ~(IsIntText(a[1]) /\ IsFloatText(a[3])) THEN [reply |-> "format"]
            ELSE IF AssetColumn(Lower(a[2])) = "" THEN [reply |-> "asset"]
            ELSE [uid |-> PyInt(a[1]),
                  sets |-> (AssetColumn(Lower(a[2])) :> PyFloat(a[3]))]

StartCmd(t, u, prof, cmd, a) ==
    /\ ProcOf(t) = "bot"
    /\ Begin(t, "up_select",
             [op |-> cmd, uid |-> u, prof |-> prof, now |-> 0, exists |-> FALSE,
              args |-> a])

\* admin_guard, the parsing, and UPDATE users SET <col>=? WHERE user_id=?
cmd_update(t) ==
    LET p == ProcOf(t)
        l == loc[t]
        plan == CmdPlan(l.op, l.args)
    IN  /\ pc[t] = "cmd"
        /\ IF ~is_admin(l.uid)
           THEN /\ Finish(t, Status("denied"))
                /\ UNCHANGED <<disk, writer, pending>>
           ELSE IF "reply" \in DOMAIN plan
           THEN /\ Finish(t, Status(plan.reply))
                /\ UNCHANGED <<disk, writer, pending>>
           ELSE /\ CanWrite(p)
                /\ WriteTo(p, Update(View(p), plan.uid, Bind(plan.sets)))
                /\ Goto(t, "cmd_commit")
                /\ UNCHANGED loc
        /\ UNCHANGED <<cols, clock, boot, calls, ADMIN_API_KEY>>

\* conn.commit(); bot.send_message(..., "✅ ...")
cmd_commit(t) ==
    /\ pc[t] = "cmd_commit"
    /\ CommitBy(ProcOf(t))
    /\ Finish(t, Status("ok"))
    /\ UNCHANGED <<cols, clock, boot, calls, ADMIN_API_KEY>>

-----------------------------------------------------------------------------
(* Reads: GET /config, GET /admin/users, and the bot's /user and /users *)

\* `x or d` of Python on a stored value: 0, 0.0, NULL and "" are falsy.
OrInt(x, d) == IF x = 0 THEN d ELSE x
OrReal(x, d) == IF x \in {Null, F(0)} THEN d ELSE x
OrText(x, d) == IF x = "" THEN d ELSE x

\* The body config() returns for row r.
ConfigOf(r) ==
    [status |-> "ok",
     user_id |-> r["user_id"],
     t_wallet_seconds |-> OrInt(r["t_wallet_seconds"], 0),
     t_seed_seconds |-> OrInt(r["t_seed_seconds"], 900),
     win_chance |-> OrReal(r["win_chance"], F(1)),
     gen_level |-> OrInt(r["gen_level"], 0),
     wallet_status |-> OrText(r["wallet_status"], "idle"),
     wallet_address |-> OrText(r["wallet_address"], "")]

StartConfig(t, u) ==
    /\ ProcOf(t) = "api"
    /\ Begin(t, "cfg_get", [op |-> "config", uid |-> u])

\* r = get_user_row(user_id); return {...}
config(t) ==
    LET got == get_user_row(View(ProcOf(t)), loc[t].uid)
    IN  /\ pc[t] = "cfg_get"
        /\ IF got.status = "404"
           THEN Finish(t, Status("404"))
           ELSE Finish(t, ConfigOf(got.r))
        /\ UNCHANGED <<cols, disk, writer, pending, clock, boot, calls, ADMIN_API_KEY>>

\* ORDER BY last_seen DESC as SQLite runs it here: a scan of the table in
\* rowid (user_id) order fed to its sorter, which keeps rows of equal
\* last_seen in the order of the scan.
RECURSIVE OrderByLastSeenAsc(_)
OrderByLastSeenAsc(rs) ==
    IF rs = {} THEN <<>>
    ELSE LET first == CHOOSE r \in rs :
                         \A o \in rs :
                            \/ r["last_seen"] < o["last_seen"]
                            \/ r["last_seen"] = o["last_seen"] /\ r["user_id"] <= o["user_id"]
         IN  <<first>> \o OrderByLastSeenAsc(rs \ {first})
RECURSIVE OrderByLastSeenDesc(_)
OrderByLastSeenDesc(rs) ==
    IF rs = {} THEN <<>>
    ELSE LET first == CHOOSE r \in rs :
                         \A o \in rs :
                            \/ o["last_seen"] < r["last_seen"]
                            \/ o["last_seen"] = r["last_seen"] /\ r["user_id"] <= o["user_id"]
         IN  <<first>> \o OrderByLastSeenDesc(rs \ {first})

\* LIMIT n
Limit(rows, n) == SubSeq(rows, 1, IntMin(n, Len(rows)))

\* The columns of a SELECT list.
Project(rows, cs) == [i \in 1..Len(rows) |-> [c \in cs |-> rows[i][c]]]

\* admin_users: LIMIT 500
ApiListLimit == 500
\* cmd_users: limit = 20; limit = max(1, min(200, int(parts[1])))
BotListDefault == 20
BotListMax == 200
BotListColumns ==
    {"user_id", "username", "first_name", "last_name", "last_seen",
     "win_chance", "gen_level"}

\* GET /admin/users arrives: require_admin.
StartAdminUsers(t, key) ==
    /\ ProcOf(t) = "api"
    /\ IF require_admin(key) # "ok"
       THEN Reject(t, Status(require_admin(key)))
       ELSE Begin(t, "adm_list", [op |-> "list"])

\* SELECT ... FROM users ORDER BY last_seen DESC LIMIT 500
admin_users(t) ==
    /\ pc[t] = "adm_list"
    /\ Finish(t, [status |-> "ok", limit |-> ApiListLimit,
                  users |-> Limit(OrderByLastSeenDesc(View(ProcOf(t))), ApiListLimit)])
    /\ UNCHANGED <<cols, disk, writer, pending, clock, boot, calls, ADMIN_API_KEY>>

\* /user <id> and /users [N]: the texts after the command word.
ReadArgs(cmd) ==
    IF cmd = "user" THEN {<<>>, <<"x">>, <<"1">>, <<"2">>}
    ELSE {<<>>, <<"x">>, <<"0">>, <<"1">>, <<"10000">>}

StartRead(t, u, prof, cmd, a) ==
    /\ ProcOf(t) = "bot"
    /\ Begin(t, "up_select",
             [op |-> cmd, uid |-> u, prof |-> prof, now |-> 0, exists |-> FALSE,
              args |-> a])

\* cmd_user after upsert_user: admin_guard, the parsing, SELECT * ... and
\* the reply.
cmd_user(t) ==
    LET l == loc[t]
    IN  /\ pc[t] = "cmd_user"
        /\ IF ~is_admin(l.uid) THEN Finish(t, Status("denied"))
           ELSE IF Len(l.args) < 1 THEN Finish(t, Status("usage"))
           ELSE IF ~IsIntText(l.args[1]) THEN Finish(t, Status("format"))
           ELSE LET got == get_user_row(View(ProcOf(t)), PyInt(l.args[1]))
                IN  IF got.status = "404"
                    THEN Finish(t, Status("not found"))
                    ELSE Finish(t, [status |-> "ok", user |-> got.r])
        /\ UNCHANGED <<cols, disk, writer, pending, clock, boot, calls, ADMIN_API_KEY>>

\* cmd_users: the limit of the listing.
cmd_users_limit(a) ==
    IF Len(a) >= 1 /\ IsIntText(a[1])
    THEN IntMax(1, IntMin(BotListMax, PyInt(a[1])))
    ELSE BotListDefault

\* cmd_users after upsert_user: admin_guard, the limit, SELECT ... ORDER BY
\* last_seen DESC LIMIT ?, and the reply.
cmd_users(t) ==
    LET l == loc[t]
        n == cmd_users_limit(l.args)
        rows == Limit(OrderByLastSeenDesc(View(ProcOf(t))), n)
    IN  /\ pc[t] = "cmd_users"
        /\ IF ~is_admin(l.uid) THEN Finish(t, Status("denied"))
           ELSE IF rows = <<>> THEN Finish(t, Status("empty"))
           ELSE Finish(t, [status |-> "ok", limit |-> n,
                           users |-> Project(rows, BotListColumns)])
        /\ UNCHANGED <<cols, disk, writer, pending, clock, boot, calls, ADMIN_API_KEY>>

-----------------------------------------------------------------------------
(* Specifications *)

\* Both processes have started against a store that holds every column
\* (a fresh file, or one either CREATE TABLE made); no user has been seen.
InitWith(keys) ==
    /\ cols = AllColumns
    /\ disk = {}
    /\ writer = NoProc
    /\ pending = {}
    /\ clock = 1
    /\ boot = [p \in Procs |-> [st |-> "up", existing |-> AllColumns, i |-> 1,
                                run |-> 1, done |-> 1, added |-> {}]]
    /\ pc = [t \in Threads |-> "idle"]
    /\ loc = [t \in Threads |-> Idle]
    /\ res = [t \in Threads |-> NoRes]
    /\ calls = 0
    /\ ADMIN_API_KEY \in keys

\* The server's environment sets ADMIN_API_KEY.
Init == InitWith({"secret"})
\* ADMIN_API_KEY may also be unset (os.getenv's default "").
InitAnyKey == InitWith({"", "secret"})

\* The profile the sender of a bot command carries.
CmdProfiles == {[first_name |-> "Anna", language |-> "ru"]}

\* Requests and messages arrive and a free thread takes each.
PingCall(t) == \E u \in Users, prof \in Profiles : StartPing(t, u, prof)
TouchCall(t) == \E u \in Users, prof \in Profiles : StartTouch(t, u, prof)
EventCall(t) == \E u \in Users, body \in EventBodies : StartEvent(t, u, body)
AdminCall(t) ==
    \E u \in Users, key \in ApiKeys, raw \in AdminBodies : StartAdmin(t, u, key, raw)
CmdCall(t) ==
    \E u \in Users, prof \in CmdProfiles, cmd \in {"setwin", "setgen", "setbal"} :
        \E a \in CmdArgs(cmd) : StartCmd(t, u, prof, cmd, a)

AllIdle == \A t \in Threads : pc[t] = "idle"
\* In a sequential run one thread per process takes the calls.
SeqThreads == {"a1", "b1"}

\* Touches from both processes, handlers running concurrently (the server's
\* thread pool, the bot's worker).
NextTouch ==
    \/ \E t \in Threads : calls < MaxTouchCalls /\ PingCall(t)
    \/ \E t \in Threads : calls < MaxTouchCalls /\ TouchCall(t)
    \/ \E t \in Threads : upsert_user_select(t)
    \/ \E t \in Threads : upsert_user_write(t)
    \/ \E t \in Threads : upsert_user_commit(t)
    \/ Tick

SpecTouch == Init /\ [][NextTouch]_vars

\* Touches one after the other: a call starts when no other is running.
NextTouchSeq ==
    \/ \E t \in SeqThreads : calls < MaxSeqCalls /\ AllIdle /\ PingCall(t)
    \/ \E t \in SeqThreads : calls < MaxSeqCalls /\ AllIdle /\ TouchCall(t)
    \/ \E t \in Threads : upsert_user_select(t)
    \/ \E t \in Threads : upsert_user_write(t)
    \/ \E t \in Threads : upsert_user_commit(t)
    \/ Tick

SpecTouchSeq == Init /\ [][NextTouchSeq]_vars

\* Touches and events one after the other.
NextEventSeq ==
    \/ \E t \in SeqThreads : calls < MaxSeqCalls /\ AllIdle /\ PingCall(t)
    \/ \E t \in SeqThreads : calls < MaxSeqCalls /\ AllIdle /\ EventCall(t)
    \/ \E t \in Threads : upsert_user_select(t)
    \/ \E t \in Threads : upsert_user_write(t)
    \/ \E t \in Threads : upsert_user_commit(t)
    \/ \E t \in Threads : event_get_user_row(t)
    \/ \E t \in Threads : event_last_seen(t)
    \/ \E t \in Threads : event_minutes(t)
    \/ \E t \in Threads : event_wallet_address(t)
    \/ \E t \in Threads : event_wallet_status(t)
    \/ \E t \in Threads : event_commit(t)
    \/ Tick

SpecEventSeq == Init /\ [][NextEventSeq]_vars

\* The fields the admin requests of a sequential run carry.
VetMenu == {"minutes_in_app", "bal_mmc"}
AdminCallSeq(t) ==
    \E u \in Users, key \in ApiKeys, raw \in BodiesOver(VetMenu, MaxVetFields) :
        StartAdmin(t, u, key, raw)

\* /setbal messages of an admin.
SetbalCall(t) ==
    \E u \in ADMIN_IDS, prof \in CmdProfiles, a \in CmdArgs("setbal") :
        StartCmd(t, u, prof, "setbal", a)

\* Touches, admin updates and /setbal commands one after the other.
NextAdminSeq ==
    \/ \E t \in SeqThreads : calls < MaxSeqCalls /\ AllIdle /\ PingCall(t)
    \/ \E t \in SeqThreads : calls < MaxSeqCalls /\ AllIdle /\ AdminCallSeq(t)
    \/ \E t \in SeqThreads : calls < MaxSeqCalls /\ AllIdle /\ SetbalCall(t)
    \/ \E t \in Threads : upsert_user_select(t)
    \/ \E t \in Threads : upsert_user_write(t)
    \/ \E t \in Threads : upsert_user_commit(t)
    \/ \E t \in Threads : admin_user_update_get(t)
    \/ \E t \in Threads : admin_user_update_write(t)
    \/ \E t \in Threads : admin_user_update_commit(t)
    \/ \E t \in Threads : admin_user_update_read(t)
    \/ \E t \in Threads : cmd_update(t)
    \/ \E t \in Threads : cmd_commit(t)
    \/ Tick

SpecAdminSeq == Init /\ [][NextAdminSeq]_vars

ConfigCall(t) == \E u \in Users : StartConfig(t, u)
UserCall(t) ==
    \E u \in Users, prof \in CmdProfiles, a \in ReadArgs("user") :
        StartRead(t, u, prof, "user", a)
UsersCall(t) ==
    \E u \in Users, prof \in CmdProfiles, a \in ReadArgs("users") :
        StartRead(t, u, prof, "users", a)
AdminUsersCall(t) == \E key \in ApiKeys : StartAdminUsers(t, key)

PlainPingCall(t) == \E u \in Users, prof \in CmdProfiles : StartPing(t, u, prof)
PlainTouchCall(t) == \E u \in Users, prof \in CmdProfiles : StartTouch(t, u, prof)

\* Touches and point reads from both processes, handlers running
\* concurrently (one profile, and the clock stands still: neither matters
\* to whether a record is found).
NextGet ==
    \/ \E t \in Threads : calls < MaxGetCalls /\ PlainPingCall(t)
    \/ \E t \in Threads : calls < MaxGetCalls /\ PlainTouchCall(t)
    \/ \E t \in Threads : calls < MaxGetCalls /\ ConfigCall(t)
    \/ \E t \in Threads : calls < MaxGetCalls /\ UserCall(t)
    \/ \E t \in Threads : upsert_user_select(t)
    \/ \E t \in Threads : upsert_user_write(t)
    \/ \E t \in Threads : upsert_user_commit(t)
    \/ \E t \in Threads : config(t)
    \/ \E t \in Threads : cmd_user(t)

SpecGet == Init /\ [][NextGet]_vars

\* Touches and listings one after the other.
NextListSeq ==
    \/ \E t \in SeqThreads : calls < MaxListCalls /\ AllIdle /\ PlainPingCall(t)
    \/ \E t \in SeqThreads : calls < MaxListCalls /\ AllIdle /\ PlainTouchCall(t)
    \/ \E t \in Threads : calls < MaxListCalls /\ AllIdle /\ AdminUsersCall(t)
    \/ \E t \in Threads : calls < MaxListCalls /\ AllIdle /\ UsersCall(t)
    \/ \E t \in Threads : upsert_user_select(t)
    \/ \E t \in Threads : upsert_user_write(t)
    \/ \E t \in Threads : upsert_user_commit(t)
    \/ \E t \in Threads : admin_users(t)
    \/ \E t \in Threads : cmd_users(t)
    \/ Tick

SpecListSeq == Init /\ [][NextListSeq]_vars

\* The whole life of a deployment: the two processes are started, one
\* after the other in either order, on a new file or on a table the bot's
\* CREATE TABLE made (with or without a record); once both have started
\* they serve calls one after the other, and either is restarted between
\* calls.
InitLife == InitSchema /\ cols \in {{}, BotCreateColumns}
Booted == \A p \in Procs : boot[p].st \in {"up", "crashed"}
Serving == calls < MaxLifeCalls /\ AllIdle /\ Booted
\* No other process is in the middle of its start-up.
Alone(p) == \A q \in Procs \ {p} : boot[q].st \in {"start", "up", "crashed"}
Quiet == AllIdle /\ Booted /\ writer = NoProc
\* Admin writes that pass their guard: the key is right, the sender an admin.
KeyedAdminCall(t) ==
    \E u \in Users, raw \in AdminBodies : StartAdmin(t, u, <<" secret ">>, raw)
AdminCmdCall(t) ==
    \E u \in ADMIN_IDS, prof \in CmdProfiles, cmd \in {"setwin", "setgen", "setbal"} :
        \E a \in CmdArgs(cmd) : StartCmd(t, u, prof, cmd, a)

NextLife ==
    \/ \E p \in Procs : Alone(p) /\ db_init(p)
    \/ \E p \in Procs : Alone(p) /\ ensure_user_columns_read(p)
    \/ \E p \in Procs : Alone(p) /\ ensure_user_columns_add(p)
    \/ \E p \in Procs : Alone(p) /\ ensure_user_columns_commit(p)
    \/ \E p \in Procs : Quiet /\ Restart(p)
    \/ \E t \in SeqThreads : Serving /\ PlainPingCall(t)
    \/ \E t \in SeqThreads : Serving /\ PlainTouchCall(t)
    \/ \E t \in SeqThreads : Serving /\ EventCall(t)
    \/ \E t \in SeqThreads : Serving /\ KeyedAdminCall(t)
    \/ \E t \in SeqThreads : Serving /\ AdminCmdCall(t)
    \/ \E t \in Threads : upsert_user_select(t)
    \/ \E t \in Threads : upsert_user_write(t)
    \/ \E t \in Threads : upsert_user_commit(t)
    \/ \E t \in Threads : event_get_user_row(t)
    \/ \E t \in Threads : event_last_seen(t)
    \/ \E t \in Threads : event_minutes(t)
    \/ \E t \in Threads : event_wallet_address(t)
    \/ \E t \in Threads : event_wallet_status(t)
    \/ \E t \in Threads : event_commit(t)
    \/ \E t \in Threads : admin_user_update_get(t)
    \/ \E t \in Threads : admin_user_update_write(t)
    \/ \E t \in Threads : admin_user_update_commit(t)
    \/ \E t \in Threads : admin_user_update_read(t)
    \/ \E t \in Threads : cmd_update(t)
    \/ \E t \in Threads : cmd_commit(t)
    \/ Tick

SpecLife == InitLife /\ [][NextLife]_vars

\* Touches and events of the request server, handlers running concurrently.
NextEvent ==
    \/ \E t \in Threads : calls < MaxEventCalls /\ PingCall(t)
    \/ \E t \in Threads : calls < MaxEventCalls /\ EventCall(t)
    \/ \E t \in Threads : upsert_user_select(t)
    \/ \E t \in Threads : upsert_user_write(t)
    \/ \E t \in Threads : upsert_user_commit(t)
    \/ \E t \in Threads : event_get_user_row(t)
    \/ \E t \in Threads : event_last_seen(t)
    \/ \E t \in Threads : event_minutes(t)
    \/ \E t \in Threads : event_wallet_address(t)
    \/ \E t \in Threads : event_wallet_status(t)
    \/ \E t \in Threads : event_commit(t)
    \/ Tick

SpecEvent == Init /\ [][NextEvent]_vars

\* Admin updates of the columns config() reports, with the right key.
ConfigColumns ==
    {"t_wallet_seconds", "t_seed_seconds", "win_chance", "gen_level",
     "wallet_status", "wallet_address"}
ConfigAdminCall(t) ==
    \E u \in Users, raw \in BodiesOver(ConfigColumns, MaxFields) :
        StartAdmin(t, u, <<" secret ">>, raw)

\* Touches, admin updates and configuration reads one after the other.
NextConfigSeq ==
    \/ \E t \in SeqThreads : calls < MaxSeqCalls /\ AllIdle /\ PlainPingCall(t)
    \/ \E t \in SeqThreads : calls < MaxSeqCalls /\ AllIdle /\ ConfigAdminCall(t)
    \/ \E t \in SeqThreads : calls < MaxSeqCalls /\ AllIdle /\ ConfigCall(t)
    \/ \E t \in Threads : upsert_user_select(t)
    \/ \E t \in Threads : upsert_user_write(t)
    \/ \E t \in Threads : upsert_user_commit(t)
    \/ \E t \in Threads : admin_user_update_get(t)
    \/ \E t \in Threads : admin_user_update_write(t)
    \/ \E t \in Threads : admin_user_update_commit(t)
    \/ \E t \in Threads : admin_user_update_read(t)
    \/ \E t \in Threads : config(t)

SpecConfigSeq == Init /\ [][NextConfigSeq]_vars

\* Touches, admin updates and admin listings one after the other, with any
\* X-API-Key header, on a server with or without a configured key.
NextGuardSeq ==
    \/ \E t \in SeqThreads : calls < MaxSeqCalls /\ AllIdle /\ PlainPingCall(t)
    \/ \E t \in SeqThreads : calls < MaxSeqCalls /\ AllIdle /\ AdminCallSeq(t)
    \/ \E t \in SeqThreads : calls < MaxSeqCalls /\ AllIdle /\ AdminUsersCall(t)
    \/ \E t \in Threads : upsert_user_select(t)
    \/ \E t \in Threads : upsert_user_write(t)
    \/ \E t \in Threads : upsert_user_commit(t)
    \/ \E t \in Threads : admin_user_update_get(t)
    \/ \E t \in Threads : admin_user_update_write(t)
    \/ \E t \in Threads : admin_user_update_commit(t)
    \/ \E t \in Threads : admin_user_update_read(t)
    \/ \E t \in Threads : admin_users(t)

SpecGuardSeq == InitAnyKey /\ [][NextGuardSeq]_vars

\* Bot admin commands (/users, /user, /setwin, /setgen, /setbal) of any
\* sender, with touches of the request server running concurrently.
NextCmd ==
    \/ \E t \in Threads : calls < MaxCmdCalls /\ PlainPingCall(t)
    \/ \E t \in Threads : calls < MaxCmdCalls /\ CmdCall(t)
    \/ \E t \in Threads : calls < MaxCmdCalls /\ UserCall(t)
    \/ \E t \in Threads : calls < MaxCmdCalls /\ UsersCall(t)
    \/ \E t \in Threads : upsert_user_select(t)
    \/ \E t \in Threads : upsert_user_write(t)
    \/ \E t \in Threads : upsert_user_commit(t)
    \/ \E t \in Threads : cmd_update(t)
    \/ \E t \in Threads : cmd_commit(t)
    \/ \E t \in Threads : cmd_user(t)
    \/ \E t \in Threads : cmd_users(t)
    \/ Tick

SpecCmd == Init /\ [][NextCmd]_vars

\* Every handler, concurrently.
Next ==
    \/ \E t \in Threads : calls < MaxCalls /\ PingCall(t)
    \/ \E t \in Threads : calls < MaxCalls /\ TouchCall(t)
    \/ \E t \in Threads : calls < MaxCalls /\ EventCall(t)
    \/ \E t \in Threads : calls < MaxCalls /\ AdminCall(t)
    \/ \E t \in Threads : calls < MaxCalls /\ CmdCall(t)
    \/ \E t \in Threads : upsert_user_select(t)
    \/ \E t \in Threads : upsert_user_write(t)
    \/ \E t \in Threads : upsert_user_commit(t)
    \/ \E t \in Threads : event_get_user_row(t)
    \/ \E t \in Threads : event_last_seen(t)
    \/ \E t \in Threads : event_minutes(t)
    \/ \E t \in Threads : event_wallet_address(t)
    \/ \E t \in Threads : event_wallet_status(t)
    \/ \E t \in Threads : event_commit(t)
    \/ \E t \in Threads : admin_user_update_get(t)
    \/ \E t \in Threads : admin_user_update_write(t)
    \/ \E t \in Threads : admin_user_update_commit(t)
    \/ \E t \in Threads : admin_user_update_read(t)
    \/ \E t \in Threads : cmd_update(t)
    \/ \E t \in Threads : cmd_commit(t)
    \/ Tick

Spec == InitAnyKey /\ [][Next]_vars

-----------------------------------------------------------------------------
(* Properties *)

\* Rows as connection p sees them after the step.
ViewNext(p) == IF writer' = p THEN pending' ELSE disk'

ProfileColumns == {"username", "first_name", "last_name", "language"}

\* C1: a touch that finishes leaves exactly one record of its user_id, with
\* the profile fields of that call; the call that creates the record writes
\* created_at = its own clock reading, and a later call on the existing
\* record leaves created_at as the earlier call wrote it.
C1_TouchTwice ==
    [][\A t \in Threads :
          (pc[t] = "up_commit" /\ pc'[t] = "idle") =>
             LET u == loc[t].uid
                 before == Select(disk, u)
                 after == Select(disk', u)
             IN  /\ Cardinality(after) = 1
                 /\ \A r \in after :
                      /\ \A k \in ProfileColumns : r[k] = OrEmpty(loc[t].prof, k)
                      /\ IF loc[t].exists
                         THEN /\ Cardinality(before) = 1
                              /\ \A o \in before : r["created_at"] = o["created_at"]
                         ELSE r["created_at"] = loc[t].now]_vars

\* C1 witness: a second touch, with another profile and a later clock, has
\* written to the record the first touch created.
C1_Witness ==
    \E t \in Threads :
        /\ pc[t] = "up_commit"
        /\ loc[t].exists
        /\ \E o \in Select(disk, loc[t].uid) :
              /\ o["created_at"] < loc[t].now
              /\ \E k \in ProfileColumns : o[k] # OrEmpty(loc[t].prof, k)

\* C2: concurrent touches of one user_id never surface a duplicate-key
\* failure to a caller, and the store never holds two rows of a user_id.
C2_ConcurrentTouchConverges ==
    /\ \A t \in Threads : res[t].status # "IntegrityError"
    /\ \A u \in Users : Cardinality(Select(disk, u)) <= 1

\* C3: an event that finishes leaves minutes_in_app at its prior value plus
\* minutes_delta when that is positive, and at its prior value when
\* minutes_delta is absent, 0 or negative; so d1 then d2 add up to d1 + d2.
C3_EventAccumulates ==
    [][\A t \in Threads :
          (pc[t] = "ev_commit" /\ pc'[t] = "idle") =>
             LET b == loc[t].body
                 d == IF "minutes_delta" \in DOMAIN b /\ b["minutes_delta"] > 0
                      THEN b["minutes_delta"] ELSE 0
             IN  /\ Select(disk', loc[t].uid) # {}
                 /\ \A o \in Select(disk, loc[t].uid) :
                      \A r \in Select(disk', loc[t].uid) :
                          r["minutes_in_app"] = o["minutes_in_app"] + d]_vars

\* C3 witness: minutes_delta 5 and 3 (in either order) have been recorded
\* for one user.
C3_Witness == \E r \in disk : r["minutes_in_app"] = 8

\* C4: once a process has run its reconciliation to the end, no later step
\* of its start-up code changes the live column set or any row, and none
\* fails.
C4_ReconcileIdempotent ==
    [][\A p \in Procs :
          (boot[p].done >= 1 /\ boot'[p] # boot[p]) =>
             /\ cols' = cols
             /\ disk' = disk
             /\ boot'[p].st # "crashed"]_vars

\* C4 witness: a process whose first reconciliation added columns has run a
\* second one to the end.
C4_Witness ==
    \E p \in Procs :
        /\ boot[p].done >= 2
        /\ boot[p].st = "up"
        /\ boot[p].added # {}

\* C5: after a process has run its reconciliation to the end, the live
\* table holds every declared column.
C5_ReconcileYieldsAllColumns ==
    \A p \in Procs : boot[p].st = "up" => AllColumns \subseteq cols

\* C6: no reconciliation fails, also when both processes find the same
\* column missing and both try to add it.
C6_RaceLoserDoesNotFail ==
    \A p \in Procs : boot[p].st # "crashed"

\* C7: every record's gen_level is in [0, 999].
C7_GenLevelInRange ==
    \A r \in disk : r["gen_level"] >= 0 /\ r["gen_level"] <= 999

\* C8: every record's win_chance is a number in [0, 100].
C8_WinChanceInRange ==
    \A r \in disk :
        /\ IsNum(r["win_chance"])
        /\ r["win_chance"].v >= 0
        /\ r["win_chance"].v <= 100

\* C9: every record's t_wallet_seconds and t_seed_seconds are in
\* [0, 31536000].
C9_DurationsInRange ==
    \A r \in disk :
        \A c \in {"t_wallet_seconds", "t_seed_seconds"} :
            r[c] >= 0 /\ r[c] <= 31536000

\* C10: a statement of recordEvent or adminUpdate whose call carries an
\* empty wallet_address or wallet_status (empty after trimming, for
\* adminUpdate) leaves that column of the addressed record as it was.
C10_EmptyTextIgnored ==
    [][\A t \in Threads :
          LET p == ProcOf(t)
              Kept(k) == \A o \in Select(View(p), loc[t].uid) :
                            \A r \in Select(ViewNext(p), loc[t].uid) : r[k] = o[k]
          IN  /\ (pc[t] = "adm_update" /\ pc'[t] = "adm_commit") =>
                    \A k \in TextFields \cap DOMAIN loc[t].fields :
                        Strip(loc[t].fields[k]) = "" => Kept(k)
              /\ (pc[t] \in {"ev_seen", "ev_minutes", "ev_address", "ev_status"}
                    /\ pc'[t] # pc[t]) =>
                    \A k \in TextFields \cap DOMAIN loc[t].body :
                        loc[t].body[k] = "" => Kept(k)]_vars

\* Rows of the store after the step equal the rows before it, in the file
\* and in the open transaction.
RowsUnchanged == disk' = disk /\ pending' = pending

\* C11: an administrative column write addressed to a user_id without a
\* record ends with NotFound (404) reported to its caller and changes no
\* row: adminUpdate at its look-up of the record, a bot command (/setwin,
\* /setgen, /setbal) at the statement that follows its guard and parsing.
C11_AdminWriteNotFound ==
    [][\A t \in Threads :
          LET p == ProcOf(t)
              plan == CmdPlan(loc[t].op, loc[t].args)
          IN  /\ (/\ pc[t] = "adm_get"
                  /\ pc'[t] # pc[t]
                  /\ Select(View(p), loc[t].uid) = {})
                    => /\ pc'[t] = "idle"
                       /\ res'[t].status = "404"
                       /\ RowsUnchanged
              /\ (/\ pc[t] = "cmd"
                  /\ pc'[t] # pc[t]
                  /\ is_admin(loc[t].uid)
                  /\ "uid" \in DOMAIN plan
                  /\ Select(View(p), plan.uid) = {})
                    => /\ pc'[t] = "idle"
                       /\ res'[t].status = "404"
                       /\ RowsUnchanged]_vars

EventWritePcs == {"ev_seen", "ev_minutes", "ev_address", "ev_status"}

\* C12: recordEvent addressed to a user_id its connection sees no record of
\* ends at its look-up with NotFound (404) and leaves the store as it was
\* (rows, open transaction and lock); and no write statement of recordEvent
\* ever runs for a user_id without a record.
C12_EventNotFound ==
    [][\A t \in Threads :
          LET p == ProcOf(t)
          IN  /\ (/\ pc[t] = "ev_get"
                  /\ pc'[t] # pc[t]
                  /\ Select(View(p), loc[t].uid) = {})
                    => /\ pc'[t] = "idle"
                       /\ res'[t].status = "404"
                       /\ RowsUnchanged
                       /\ writer' = writer
              /\ (pc[t] \in EventWritePcs /\ pc'[t] # pc[t])
                    => Select(View(p), loc[t].uid) # {}]_vars

\* C12 witness: an event for a user never touched was answered 404 while
\* the store holds another user's record, which a write would have shown.
C12_Witness ==
    \E t \in Threads, u \in Users :
        /\ res[t].status = "404"
        /\ Select(disk, u) # {}
        /\ Cardinality(disk) = 1

\* The vetting rules: a number where a number is due.
Numeric(k, s) ==
    /\ k = "win_chance" => IsFloatText(s)
    /\ k \in IntFields => IsIntText(s)
    /\ k \in MoneyFields => IsFloatText(Strip(CommaToDot(s)))
\* A bot admin command whose value (or asset name) does not vet.
BadCmdValue(op, a) ==
    CASE op = "setwin" -> Len(a) >= 2 /\ ~IsFloatText(a[2])
      [] op = "setgen" -> Len(a) >= 2 /\ ~IsIntText(a[2])
      [] op = "setbal" -> Len(a) >= 3 /\ (~IsFloatText(a[3]) \/ AssetColumn(Lower(a[2])) = "")
      [] OTHER -> FALSE

\* C13: an administrative update with a field that fails vetting never
\* enters its handler, a call that is turned away on arrival changes
\* nothing in the store, and a bot command whose value fails vetting ends
\* with an error reply at its parsing step without a write: no column
\* changes, the valid fields of the same call included.
C13_InvalidValueRejected ==
    [][\A t \in Threads :
          /\ (pc[t] = "idle" /\ pc'[t] = "adm_get")
                => \A k \in DOMAIN loc'[t].raw : Numeric(k, loc'[t].raw[k])
          /\ (pc[t] = "idle" /\ pc'[t] = "idle" /\ res'[t] # res[t])
                => RowsUnchanged /\ writer' = writer
          /\ (/\ pc[t] = "cmd"
              /\ pc'[t] # pc[t]
              /\ is_admin(loc[t].uid)
              /\ BadCmdValue(loc[t].op, loc[t].args))
                => /\ pc'[t] = "idle"
                   /\ res'[t].status \in {"format", "asset"}
                   /\ RowsUnchanged
                   /\ writer' = writer]_vars

\* C13 witness: a request with a non-numeric bal_mmc and minutes_in_app = 9
\* for an existing record was answered 422, and the record's minutes_in_app
\* is still 0.
C13_Witness ==
    \E t \in Threads :
        /\ res[t].status = "422"
        /\ DOMAIN res[t].raw = {"bal_mmc", "minutes_in_app"}
        /\ res[t].raw["bal_mmc"] = "abc"
        /\ res[t].raw["minutes_in_app"] = "9"
        /\ \E r \in Select(disk, res[t].uid) : r["minutes_in_app"] = 0

\* C14: adminUpdate for an existing record with no field supplied ends at
\* its look-up with updated = false and writes nothing: rows, open
\* transaction and lock are after the call what they were before it.
C14_EmptyUpdateNoWrite ==
    [][\A t \in Threads :
          (/\ pc[t] = "adm_get"
           /\ pc'[t] # pc[t]
           /\ Select(View(ProcOf(t)), loc[t].uid) # {}
           /\ DOMAIN loc[t].raw = {})
             => /\ pc'[t] = "idle"
                /\ res'[t].status = "ok"
                /\ res'[t].updated = FALSE
                /\ RowsUnchanged
                /\ writer' = writer]_vars

\* C14 witness: an adminUpdate was answered updated = false.
C14_Witness ==
    \E t \in Threads :
        /\ "updated" \in DOMAIN res[t]
        /\ res[t].updated = FALSE
        /\ disk # {}

\* A point read at its look-up: config in the request server, /user of an
\* admin with a numeric id in the bot; GetTarget is the user_id it reads.
GetStep(t) ==
    \/ pc[t] = "cfg_get"
    \/ /\ pc[t] = "cmd_user"
       /\ is_admin(loc[t].uid)
       /\ Len(loc[t].args) >= 1
       /\ IsIntText(loc[t].args[1])
GetTarget(t) == IF pc[t] = "cfg_get" THEN loc[t].uid ELSE PyInt(loc[t].args[1])

ListedBefore(a, b) ==
    \/ a["last_seen"] > b["last_seen"]
    \/ a["last_seen"] = b["last_seen"] /\ a["user_id"] < b["user_id"]

IsListing(r) == "users" \in DOMAIN r

C17_MinutesNeverDecrease ==
    [][/\ \A o \in disk : \A r \in Select(disk', o["user_id"]) :
            r["minutes_in_app"] >= o["minutes_in_app"]
       /\ \A p \in Procs :
            \A o \in View(p) : \A r \in Select(ViewNext(p), o["user_id"]) :
                r["minutes_in_app"] >= o["minutes_in_app"]]_vars

\* C18: no step lowers the last_seen of a record, in the file or in a
\* connection's open transaction.
C18_LastSeenMonotonic ==
    [][/\ \A o \in disk : \A r \in Select(disk', o["user_id"]) :
            r["last_seen"] >= o["last_seen"]
       /\ \A p \in Procs :
            \A o \in View(p) : \A r \in Select(ViewNext(p), o["user_id"]) :
                r["last_seen"] >= o["last_seen"]]_vars

\* C20: the statement of recordEvent that writes minutes_in_app adds
\* minutes_delta to the value the record holds when the statement runs
\* (column = column + delta), whatever other calls ran since the handler
\* read the record.
C20_EventIncrementAtomic ==
    [][\A t \in Threads :
          (pc[t] = "ev_minutes" /\ pc'[t] # pc[t])
             => \A o \in Select(View(ProcOf(t)), loc[t].uid) :
                   \A r \in Select(ViewNext(ProcOf(t)), loc[t].uid) :
                       r["minutes_in_app"] =
                           o["minutes_in_app"] + loc[t].body["minutes_delta"]]_vars

\* C19: no step of either process (a statement of touch, recordEvent,
\* adminUpdate, /setwin, /setgen, /setbal, or of the start-up
\* reconciliation) changes the created_at of a record or removes or
\* duplicates its user_id, in the file or in a connection's open
\* transaction.
C19_CreatedAtSetOnce ==
    [][/\ \A o \in disk :
            /\ Cardinality(Select(disk', o["user_id"])) = 1
            /\ \A r \in Select(disk', o["user_id"]) : r["created_at"] = o["created_at"]
       /\ \A p \in Procs : \A o \in View(p) :
            /\ Cardinality(Select(ViewNext(p), o["user_id"])) = 1
            /\ \A r \in Select(ViewNext(p), o["user_id"]) :
                  r["created_at"] = o["created_at"]]_vars

\* C19 witness: a record created at time 1 has since been seen at a later
\* time and holds recorded minutes, in a store whose columns a start-up
\* added, with a process that has reconciled twice.
C19_Witness ==
    /\ \E r \in disk :
          /\ r["created_at"] < r["last_seen"]
          /\ r["minutes_in_app"] # 0
    /\ \E p \in Procs : boot[p].added # {}
    /\ \E p \in Procs : boot[p].done >= 2

\* C21: the write statements of one recordEvent become durable together:
\* while a handler thread stands between the first UPDATE of its event and
\* the last (some of its column writes are in the connection's open
\* transaction, others are still to run), no step publishes that
\* transaction to the file.
C21_EventWritesDurableTogether ==
    [][\A t \in Threads :
          (/\ pc[t] \in {"ev_minutes", "ev_address", "ev_status"}
           /\ writer = ProcOf(t))
             => disk' = disk]_vars

\* C22: the UPDATE of a successful adminUpdate sets every column supplied
\* with a non-null value to its vetted value and leaves every other column
\* of the addressed record, and every other record, as it was; and the
\* reply names exactly the supplied columns in `fields`.
C22_AdminUpdateWritesExactly ==
    [][\A t \in Threads :
          LET p == ProcOf(t)
              u == loc[t].uid
              sent == loc[t].fields
          IN  /\ (pc[t] = "adm_update" /\ pc'[t] = "adm_commit") =>
                    /\ \A o \in View(p) : o["user_id"] # u => o \in ViewNext(p)
                    /\ \A r \in ViewNext(p) : r["user_id"] # u => r \in View(p)
                    /\ \A o \in Select(View(p), u) :
                          /\ Cardinality(Select(ViewNext(p), u)) = 1
                          /\ \A r \in Select(ViewNext(p), u) :
                                \A c \in DOMAIN o :
                                    r[c] = IF c \in DOMAIN sent THEN sent[c] ELSE o[c]
              /\ (pc[t] = "adm_read" /\ pc'[t] = "idle" /\ res'[t].status = "ok") =>
                    /\ res'[t].updated
                    /\ res'[t].fields = DOMAIN loc[t].raw]_vars

\* C23: a configuration read that finds the record returns, for each of
\* t_wallet_seconds, t_seed_seconds, win_chance, gen_level, wallet_status
\* and wallet_address, the value the record's column holds.
C23_ConfigReportsStored ==
    [][\A t \in Threads :
          (pc[t] = "cfg_get" /\ pc'[t] = "idle" /\ res'[t].status = "ok")
             => \A r \in Select(View(ProcOf(t)), loc[t].uid) :
                   \A c \in ConfigColumns : res'[t][c] = r[c]]_vars

\* The X-API-Key header does not carry the configured key (surrounding
\* blanks of the header value aside), or the server has no key configured.
BadKey(key) ==
    \/ ADMIN_API_KEY = ""
    \/ key = <<>>
    \/ Strip(key[1]) # ADMIN_API_KEY

\* What a request turned away on arrival leaves behind: the handler has
\* run no statement, the store is as it was, the reply holds no user data.
TurnedAway(t) ==
    /\ pc'[t] = "idle"
    /\ RowsUnchanged
    /\ writer' = writer
    /\ "user" \notin DOMAIN res'[t]
    /\ "users" \notin DOMAIN res'[t]

GuardError == IF ADMIN_API_KEY = "" THEN "500" ELSE "403"

\* C24 as stated: an adminUpdate or admin list request with a missing or
\* wrong key, or on a server without a configured key, is answered 403
\* (500 when the key is unset) before any store access, with no user data
\* and the store unchanged, whether or not the addressed record exists.
C24_BadKeyRejectedWithGuardError ==
    [][\A t \in Threads, key \in ApiKeys :
          BadKey(key) =>
             /\ \A u \in Users, raw \in BodiesOver(VetMenu, MaxVetFields) :
                   StartAdmin(t, u, key, raw)
                      => TurnedAway(t) /\ res'[t].status = GuardError
             /\ StartAdminUsers(t, key)
                   => TurnedAway(t) /\ res'[t].status = GuardError]_vars

\* C24 (amended): such a request is turned away before any store access,
\* with no user data and the store unchanged, whether or not the addressed
\* record exists; the answer is 403 (500 when the key is unset), or 422
\* when the body of an adminUpdate does not validate.
C24_BadKeyRejected ==
    [][\A t \in Threads, key \in ApiKeys :
          BadKey(key) =>
             /\ \A u \in Users, raw \in BodiesOver(VetMenu, MaxVetFields) :
                   StartAdmin(t, u, key, raw)
                      => /\ TurnedAway(t)
                         /\ res'[t].status =
                               IF \A k \in DOMAIN raw : Numeric(k, raw[k])
                               THEN GuardError ELSE "422"
             /\ StartAdminUsers(t, key)
                   => TurnedAway(t) /\ res'[t].status = GuardError]_vars

\* C24 witness: a request was answered 403 by a server that holds the
\* record of one user and none of the other.
C24_Witness ==
    /\ \E t \in Threads : res[t].status = "403"
    /\ Cardinality(disk) = 1

\* The rows `after` differ from the rows `before` at most in the record of
\* user u, and there at most in what a touch writes: the profile fields and
\* last_seen of an existing record, or a new record whose economy columns
\* hold their defaults.
OnlyTouched(before, after, u) ==
    /\ \A r \in after : r["user_id"] # u => r \in before
    /\ \A o \in before : o["user_id"] # u => o \in after
    /\ \A o \in Select(before, u) :
          \A r \in Select(after, u) :
              \A c \in DOMAIN o \ (ProfileColumns \cup {"last_seen"}) : r[c] = o[c]
    /\ Select(before, u) = {} =>
          \A r \in Select(after, u) :
              \A c \in {"win_chance", "gen_level"} \cup MoneyFields :
                  r[c] = ColumnDefault(c)

BotAdminCommands == {"users", "user", "setwin", "setgen", "setbal"}

\* C25: every statement of a bot admin command whose sender is not in
\* ADMIN_IDS leaves the store as it was but for the sender's own record as
\* the preceding touch writes it; the statement after the touch answers
\* "denied" and writes nothing, so no win_chance, gen_level or balance
\* column of any record is written.
C25_NonAdminCommandTouchesOnlyCaller ==
    [][\A t \in Threads :
          (/\ loc[t].op \in BotAdminCommands
           /\ loc[t].uid \notin ADMIN_IDS
           /\ pc'[t] # pc[t])
             => /\ OnlyTouched(View(ProcOf(t)), ViewNext(ProcOf(t)), loc[t].uid)
                /\ OnlyTouched(disk, disk', loc[t].uid)
                /\ pc[t] \in {"cmd", "cmd_user", "cmd_users"}
                      => /\ pc'[t] = "idle"
                         /\ res'[t].status = "denied"
                         /\ RowsUnchanged
                         /\ writer' = writer]_vars

\* C25 witness: a command of user 2, who is no admin, was denied; the store
\* holds the record its touch made and the record of user 1.
C25_Witness ==
    /\ res["b1"].status = "denied"
    /\ Select(disk, 2) # {}
    /\ Select(disk, 1) # {}

=============================================================================
